---- MODULE Spec2Model ----
(***************************************************************************)
(* Model of rename_photos_date_based.py: the date-resolution chain, the    *)
(* filename construction and the recursive collision resolution, driven by *)
(* the main loop over the source files.                                    *)
(*                                                                         *)
(* Strings are sequences of Unicode code points, so that ord()/chr(),      *)
(* str.replace, str.split, str.rsplit and os.path.splitext are computed as *)
(* the code computes them.                                                 *)
(***************************************************************************)
EXTENDS Integers, Sequences, FiniteSets, TLC

\* ------------------------------------------------------------------------
\* Characters used by the code (code points)
\* ------------------------------------------------------------------------
SPACE == 32
PLUS == 43
HYPHEN == 45
DOT == 46
SLASH == 47
ZERO == 48
COLON == 58
UNDERSCORE == 95
LOWER_A == 97
\* chr() raises ValueError for an argument above 0x10FFFF
MaxCodePoint == 1114111

\* Python's None
None == << -1 >>
\* a raised ValueError inside a helper
ValueError == << -2 >>
\* a raised OverflowError inside a helper
OverflowError == << -3 >>

\* ------------------------------------------------------------------------
\* str helpers
\* ------------------------------------------------------------------------
Last(s) == s[Len(s)]

\* s.count(c)
CountChar(s, c) == Cardinality({i \in 1..Len(s) : s[i] = c})

\* s.find(c) + 1 : index of the first c, 0 if absent
FirstIndex(s, c) ==
    IF \E i \in 1..Len(s) : s[i] = c
    THEN CHOOSE i \in 1..Len(s) : s[i] = c /\ \A j \in 1..(i-1) : s[j] # c
    ELSE 0

\* s.rfind(c) + 1 : index of the last c, 0 if absent
LastIndex(s, c) ==
    IF \E i \in 1..Len(s) : s[i] = c
    THEN CHOOSE i \in 1..Len(s) : s[i] = c /\ \A j \in (i+1)..Len(s) : s[j] # c
    ELSE 0

\* s.replace(c, d)
ReplaceAll(s, c, d) == [i \in 1..Len(s) |-> IF s[i] = c THEN d ELSE s[i]]

\* s.replace(c, d, n)
ReplaceFirstN(s, c, d, n) ==
    [i \in 1..Len(s) |->
        IF s[i] = c /\ Cardinality({j \in 1..i : s[j] = c}) <= n THEN d ELSE s[i]]

\* s.replace(c, "")
RemoveChar(s, c) == SelectSeq(s, LAMBDA x : x # c)

\* s.split(c)[0]
SplitHead(s, c) ==
    IF FirstIndex(s, c) = 0 THEN s ELSE SubSeq(s, 1, FirstIndex(s, c) - 1)

\* s.split(c)[1] ; IndexError (here ValueError's sibling) when s has no c
SplitSecond(s, c) ==
    IF FirstIndex(s, c) = 0 THEN ValueError
    ELSE SplitHead(SubSeq(s, FirstIndex(s, c) + 1, Len(s)), c)

IsDigit(c) == c >= 48 /\ c <= 57

\* c.isalnum() on the ASCII range (the source names of the model are ASCII)
IsAlnum(c) == IsDigit(c) \/ (c >= 65 /\ c <= 90) \/ (c >= 97 /\ c <= 122)

RECURSIVE DigitsValue(_)
DigitsValue(s) ==
    IF Len(s) = 0 THEN 0
    ELSE 10 * DigitsValue(SubSeq(s, 1, Len(s) - 1)) + (Last(s) - ZERO)

\* int(s) for a string of decimal digits; -1 stands for ValueError
ParseInt(s) ==
    IF s # ValueError /\ Len(s) > 0 /\ \A i \in 1..Len(s) : IsDigit(s[i])
    THEN DigitsValue(s) ELSE -1

RECURSIVE IntToStr(_)
\* f"{n}" for n >= 0
IntToStr(n) ==
    IF n < 10 THEN << ZERO + n >>
    ELSE IntToStr(n \div 10) \o << ZERO + (n % 10) >>

\* "%0wd" formatting
RECURSIVE Pad(_, _)
Pad(n, w) == IF w = 0 THEN << >> ELSE Pad(n \div 10, w - 1) \o << ZERO + (n % 10) >>

\* ------------------------------------------------------------------------
\* fix_date_format (lines 64-76)
\* ------------------------------------------------------------------------
fix_date_format(date) ==
    IF date # None /\ CountChar(date, COLON) > 2
    THEN ReplaceFirstN(date, COLON, HYPHEN, 2)
    ELSE date

\* ------------------------------------------------------------------------
\* datetime.strptime(date, "%Y-%m-%d %H:%M:%S"), timedelta, strftime
\* ------------------------------------------------------------------------
IsLeap(y) == (y % 4 = 0 /\ y % 100 # 0) \/ y % 400 = 0

DaysIn(y, m) ==
    IF m = 2 THEN (IF IsLeap(y) THEN 29 ELSE 28)
    ELSE IF m \in {4, 6, 9, 11} THEN 30 ELSE 31

\* the canonical layout dddd-dd-dd dd:dd:dd
HasCanonicalLayout(s) ==
    /\ Len(s) = 19
    /\ \A i \in {1, 2, 3, 4, 6, 7, 9, 10, 12, 13, 15, 16, 18, 19} : IsDigit(s[i])
    /\ s[5] = HYPHEN /\ s[8] = HYPHEN /\ s[11] = SPACE
    /\ s[14] = COLON /\ s[17] = COLON

Field(s, i, j) == DigitsValue(SubSeq(s, i, j))

\* strptime: a record; ok is FALSE when the string does not match (ValueError)
strptime(s) ==
    IF /\ HasCanonicalLayout(s)
       /\ Field(s, 1, 4) >= 1
       /\ Field(s, 6, 7) \in 1..12
       /\ Field(s, 9, 10) \in 1..DaysIn(Field(s, 1, 4), Field(s, 6, 7))
       /\ Field(s, 12, 13) <= 23 /\ Field(s, 15, 16) <= 59 /\ Field(s, 18, 19) <= 59
    THEN [ok |-> TRUE,
          y |-> Field(s, 1, 4), mo |-> Field(s, 6, 7), d |-> Field(s, 9, 10),
          h |-> Field(s, 12, 13), mi |-> Field(s, 15, 16), s |-> Field(s, 18, 19)]
    ELSE [ok |-> FALSE, y |-> 0, mo |-> 0, d |-> 0, h |-> 0, mi |-> 0, s |-> 0]

RECURSIVE AddDays(_, _)
AddDays(t, n) ==
    IF n = 0 THEN t
    ELSE IF t.d < DaysIn(t.y, t.mo) THEN AddDays([t EXCEPT !.d = t.d + 1], n - 1)
    ELSE IF t.mo < 12 THEN AddDays([t EXCEPT !.d = 1, !.mo = t.mo + 1], n - 1)
    ELSE AddDays([t EXCEPT !.d = 1, !.mo = 1, !.y = t.y + 1], n - 1)

\* date_obj + timedelta(hours=h)
AddHours(t, h) ==
    AddDays([t EXCEPT !.h = (t.h + h) % 24], (t.h + h) \div 24)

\* strftime("%Y-%m-%d %H:%M:%S")
strftime(t) ==
    Pad(t.y, 4) \o <<HYPHEN>> \o Pad(t.mo, 2) \o <<HYPHEN>> \o Pad(t.d, 2)
    \o <<SPACE>> \o Pad(t.h, 2) \o <<COLON>> \o Pad(t.mi, 2) \o <<COLON>> \o Pad(t.s, 2)

\* ------------------------------------------------------------------------
\* add_timeshift_value (lines 79-99); fmd is metadata[0]["File:FileModifyDate"]
\* ------------------------------------------------------------------------
TimeshiftValue(fmd) == ParseInt(SplitHead(SplitSecond(fmd, PLUS), COLON))

add_timeshift_value(fmd, date) ==
    IF SplitSecond(fmd, PLUS) = ValueError THEN date            \* IndexError
    ELSE IF TimeshiftValue(fmd) = -1 THEN date                  \* ValueError of int()
    ELSE IF ~strptime(date).ok THEN date                         \* ValueError of strptime
    ELSE IF AddHours(strptime(date), TimeshiftValue(fmd)).y > 9999 THEN OverflowError
    ELSE strftime(AddHours(strptime(date), TimeshiftValue(fmd)))

\* ------------------------------------------------------------------------
\* construct_filename (lines 230-262)
\* ------------------------------------------------------------------------
\* "".join(c for c in original_name if c.isalnum() or c in "_-")
SafeName(original_name) ==
    SelectSeq(original_name, LAMBDA c : IsAlnum(c) \/ c = UNDERSCORE \/ c = HYPHEN)

DateToken(date, count) ==
    IF date = None THEN IntToStr(count)
    ELSE RemoveChar(ReplaceAll(date, SPACE, UNDERSCORE), COLON)

construct_filename(prefix, date, count, file_extension, include_original_name, original_name) ==
    IF include_original_name /\ original_name # << >>
    THEN prefix \o <<UNDERSCORE>> \o DateToken(date, count) \o <<UNDERSCORE>>
         \o SafeName(original_name) \o file_extension
    ELSE prefix \o <<UNDERSCORE>> \o DateToken(date, count) \o file_extension

\* ------------------------------------------------------------------------
\* os.path.splitext (genericpath._splitext) : <<root, ext>>
\* ------------------------------------------------------------------------
splitext(p) ==
    LET sepIndex == LastIndex(p, SLASH)
        dotIndex == LastIndex(p, DOT)
    IN  IF /\ dotIndex > sepIndex
           /\ \E k \in (sepIndex + 1)..(dotIndex - 1) : p[k] # DOT
        THEN << SubSeq(p, 1, dotIndex - 1), SubSeq(p, dotIndex, Len(p)) >>
        ELSE << p, << >> >>

\* ------------------------------------------------------------------------
\* the renaming step of check_if_file_exists (lines 313-325)
\* ------------------------------------------------------------------------
\* the last character taken over without the increment
NewChar_NoIncrement(date_time) ==
    IF Len(date_time) > 6 THEN Last(date_time) ELSE LOWER_A

NewChar(date_time) ==
    IF Len(date_time) > 6 THEN Last(date_time) + 1 ELSE LOWER_A

Truncate6(date_time) ==
    SubSeq(date_time, 1, IF Len(date_time) < 6 THEN Len(date_time) ELSE 6)

MutateName(filename) ==
    LET name == splitext(filename)[1]
        ext == splitext(filename)[2]
        us == LastIndex(name, UNDERSCORE)
        old_name == SubSeq(name, 1, us - 1)
        date_time == SubSeq(name, us + 1, Len(name))
    IN  IF us = 0
        THEN name \o <<LOWER_A>> \o ext            \* rsplit gives one part: ValueError
        ELSE IF NewChar(date_time) > MaxCodePoint
        THEN name \o <<LOWER_A>> \o ext            \* chr() raises ValueError
        ELSE old_name \o <<UNDERSCORE>> \o Truncate6(date_time)
             \o << NewChar(date_time) >> \o ext

\* ------------------------------------------------------------------------
\* The source tree: the files of the run, in the order main() visits them
\* (os.walk with natsorted names, lines 584-586).  kind is the MIME family
\* filetype.guess() reports ("none" when it returns None); content names the
\* bytes of the file; exif_ok is FALSE when the exiftool call raises; meta is
\* metadata[0]; pil is what img._getexif() returns.
\* ------------------------------------------------------------------------
NoFields == [x \in {} |-> << >>]

SourceFiles == <<
    \* 1: a.jpg  EXIF:DateTimeOriginal='2021-01-01 10:00:00'
    [name |-> <<97>>, ext |-> <<46, 106, 112, 103>>, kind |-> "image", content |-> 1,
     exif_ok |-> TRUE,
     meta |-> ("EXIF:DateTimeOriginal" :> <<50, 48, 50, 49, 45, 48, 49, 45, 48, 49, 32, 49, 48, 58, 48, 48, 58, 48, 48>>),
     pil |-> NoFields],
    \* 2: acopy.jpg  EXIF:DateTimeOriginal='2021-01-01 10:00:00'
    [name |-> <<97, 99, 111, 112, 121>>, ext |-> <<46, 106, 112, 103>>, kind |-> "image", content |-> 1,
     exif_ok |-> TRUE,
     meta |-> ("EXIF:DateTimeOriginal" :> <<50, 48, 50, 49, 45, 48, 49, 45, 48, 49, 32, 49, 48, 58, 48, 48, 58, 48, 48>>),
     pil |-> NoFields],
    \* 3: b.jpg
    [name |-> <<98>>, ext |-> <<46, 106, 112, 103>>, kind |-> "image", content |-> 2,
     exif_ok |-> TRUE,
     meta |-> NoFields,
     pil |-> NoFields],
    \* 4: bcopy.jpg
    [name |-> <<98, 99, 111, 112, 121>>, ext |-> <<46, 106, 112, 103>>, kind |-> "image", content |-> 2,
     exif_ok |-> TRUE,
     meta |-> NoFields,
     pil |-> NoFields],
    \* 5: c.mov  QuickTime:CreateDate='2021-01-02 08:00:00+02:00'  File:FileModifyDate='2021:01:02 10:00:00+02:00'
    [name |-> <<99>>, ext |-> <<46, 109, 111, 118>>, kind |-> "video", content |-> 3,
     exif_ok |-> TRUE,
     meta |-> ("QuickTime:CreateDate" :> <<50, 48, 50, 49, 45, 48, 49, 45, 48, 50, 32, 48, 56, 58, 48, 48, 58, 48, 48, 43, 48, 50, 58, 48, 48>> @@ "File:FileModifyDate" :> <<50, 48, 50, 49, 58, 48, 49, 58, 48, 50, 32, 49, 48, 58, 48, 48, 58, 48, 48, 43, 48, 50, 58, 48, 48>>),
     pil |-> NoFields],
    \* 6: d.pdf
    [name |-> <<100>>, ext |-> <<46, 112, 100, 102>>, kind |-> "other", content |-> 4,
     exif_ok |-> TRUE,
     meta |-> NoFields,
     pil |-> NoFields],
    \* 7: e.txt
    [name |-> <<101>>, ext |-> <<46, 116, 120, 116>>, kind |-> "none", content |-> 5,
     exif_ok |-> TRUE,
     meta |-> NoFields,
     pil |-> NoFields],
    \* 8: f.jpg  306='2021:01:01 10:00:00'
    [name |-> <<102>>, ext |-> <<46, 106, 112, 103>>, kind |-> "image", content |-> 6,
     exif_ok |-> FALSE,
     meta |-> NoFields,
     pil |-> (306 :> <<50, 48, 50, 49, 58, 48, 49, 58, 48, 49, 32, 49, 48, 58, 48, 48, 58, 48, 48>>)],
    \* 9: g.jpg  XMP:CreateDate='2021:01:01 10:00:00'
    [name |-> <<103>>, ext |-> <<46, 106, 112, 103>>, kind |-> "image", content |-> 7,
     exif_ok |-> TRUE,
     meta |-> ("XMP:CreateDate" :> <<50, 48, 50, 49, 58, 48, 49, 58, 48, 49, 32, 49, 48, 58, 48, 48, 58, 48, 48>>),
     pil |-> NoFields],
    \* 10: m.mp4  QuickTime:CreateDate='2021:01:02 23:30:00'  File:FileModifyDate='2021:01:03 01:30:05+02:00'
    [name |-> <<109>>, ext |-> <<46, 109, 112, 52>>, kind |-> "video", content |-> 8,
     exif_ok |-> TRUE,
     meta |-> ("QuickTime:CreateDate" :> <<50, 48, 50, 49, 58, 48, 49, 58, 48, 50, 32, 50, 51, 58, 51, 48, 58, 48, 48>> @@ "File:FileModifyDate" :> <<50, 48, 50, 49, 58, 48, 49, 58, 48, 51, 32, 48, 49, 58, 51, 48, 58, 48, 53, 43, 48, 50, 58, 48, 48>>),
     pil |-> NoFields],
    \* 11: n.mov  QuickTime:CreationDate='2021:01:02 08:00:00+02:00'  File:FileModifyDate='2021:01:02 10:00:00+02:00'
    [name |-> <<110>>, ext |-> <<46, 109, 111, 118>>, kind |-> "video", content |-> 9,
     exif_ok |-> TRUE,
     meta |-> ("QuickTime:CreationDate" :> <<50, 48, 50, 49, 58, 48, 49, 58, 48, 50, 32, 48, 56, 58, 48, 48, 58, 48, 48, 43, 48, 50, 58, 48, 48>> @@ "File:FileModifyDate" :> <<50, 48, 50, 49, 58, 48, 49, 58, 48, 50, 32, 49, 48, 58, 48, 48, 58, 48, 48, 43, 48, 50, 58, 48, 48>>),
     pil |-> NoFields],
    \* 12: v.mp4  MP4:CreationTime='abcdef\U0010ffff'
    [name |-> <<118>>, ext |-> <<46, 109, 112, 52>>, kind |-> "video", content |-> 10,
     exif_ok |-> TRUE,
     meta |-> ("MP4:CreationTime" :> <<97, 98, 99, 100, 101, 102, 1114111>>),
     pil |-> NoFields]
>>

NumFiles == Len(SourceFiles)

\* What PIL decodes a content to: a picture, or 0 when Image.open or the
\* pixel load raises.  Content 11 is other bytes holding the picture of a.jpg;
\* 20..23 are pictures of files that were in the destination before the run.
Decode(c) ==
    IF c \in {1, 2, 6, 20, 21, 22, 23} THEN c
    ELSE IF c = 11 THEN 1
    ELSE 0

\* what a copy interrupted while writing leaves behind
Partial(c) == 0 - c

\* ------------------------------------------------------------------------
\* Destination directories the run can start from
\* ------------------------------------------------------------------------
EmptyDir == [n \in {} |-> 0]

EarlierRun ==
    (<<112, 95, 50, 48, 50, 49, 45, 48, 49, 45, 48, 49, 95, 49, 48, 48, 48, 48, 48, 46, 106, 112, 103>> :> 6)   \* 'p_2021-01-01_100000.jpg'
    @@ (<<112, 95, 50, 48, 50, 49, 45, 48, 49, 45, 48, 49, 95, 49, 48, 48, 48, 48, 48, 97, 46, 106, 112, 103>> :> 11)   \* 'p_2021-01-01_100000a.jpg'
    @@ (<<112, 95, 50, 48, 50, 49, 45, 48, 49, 45, 48, 50, 95, 48, 56, 48, 48, 48, 48, 46, 109, 111, 118>> :> 9)   \* 'p_2021-01-02_080000.mov'
    @@ (<<112, 95, 97, 98, 99, 100, 101, 102, 1114111, 46, 109, 112, 52>> :> 10)   \* 'p_abcdef\U0010ffff.mp4'
    @@ (<<112, 95, 49, 46, 106, 112, 103>> :> 2)   \* 'p_1.jpg'
    @@ (<<112, 95, 50, 48, 50, 49, 45, 48, 49, 45, 48, 50, 95, 48, 56, 48, 48, 48, 48, 95, 110, 46, 109, 111, 118>> :> 9)   \* 'p_2021-01-02_080000_n.mov'

Crowded ==
    (<<112, 95, 50, 48, 50, 49, 45, 48, 49, 45, 48, 49, 95, 49, 48, 48, 48, 48, 48, 46, 106, 112, 103>> :> 20)   \* 'p_2021-01-01_100000.jpg'
    @@ (<<112, 95, 50, 48, 50, 49, 45, 48, 49, 45, 48, 49, 95, 49, 48, 48, 48, 48, 48, 97, 46, 106, 112, 103>> :> 21)   \* 'p_2021-01-01_100000a.jpg'
    @@ (<<112, 95, 50, 48, 50, 49, 45, 48, 49, 45, 48, 49, 95, 49, 48, 48, 48, 48, 48, 98, 46, 106, 112, 103>> :> 22)   \* 'p_2021-01-01_100000b.jpg'
    @@ (<<112, 95, 50, 48, 50, 49, 45, 48, 49, 45, 48, 49, 95, 49, 48, 48, 48, 48, 48, 99, 46, 106, 112, 103>> :> 23)   \* 'p_2021-01-01_100000c.jpg'

InitialDests == {EmptyDir, EarlierRun, Crowded}

\* ------------------------------------------------------------------------
\* Bounds
\* ------------------------------------------------------------------------
\* number of source files processed in one run
MaxFiles == 3
\* depth of nested check_if_file_exists calls the interpreter allows before
\* it raises RecursionError (sys.getrecursionlimit() is 1000 by default)
RecursionLimit == 4

\* ------------------------------------------------------------------------
\* Metadata extraction
\* ------------------------------------------------------------------------
\* the first field of the priority list that is in metadata[0]; "" if none
FirstField(fields, meta) ==
    LET present == {i \in 1..Len(fields) : fields[i] \in DOMAIN meta}
    IN  IF present = {} THEN ""
        ELSE fields[CHOOSE i \in present : \A j \in present : i <= j]

ImageDateFields ==
    << "EXIF:CreateDate", "EXIF:DateTimeOriginal", "EXIF:ModifyDate",
       "XMP:CreateDate", "XMP:DateCreated" >>

VideoDateFields ==
    << "QuickTime:CreationDate", "QuickTime:CreateDate", "QuickTime:MediaCreateDate",
       "MP4:CreationTime", "RIFF:DateTimeOriginal" >>

PilTags == << 36867, 36868, 306 >>

\* the first tag of (36867, 36868, 306) in exif_data; 0 if none
FirstTag(pil) ==
    LET present == {i \in 1..Len(PilTags) : PilTags[i] \in DOMAIN pil}
    IN  IF present = {} THEN 0
        ELSE PilTags[CHOOSE i \in present : \A j \in present : i <= j]

\* get_image_creation_date (lines 102-150)
get_image_creation_date(f) ==
    LET exifDate ==
            IF f.exif_ok /\ FirstField(ImageDateFields, f.meta) # ""
            THEN f.meta[FirstField(ImageDateFields, f.meta)]
            ELSE None
    IN  IF exifDate # None THEN fix_date_format(exifDate)
        ELSE IF Decode(f.content) = 0 THEN None          \* Image.open raises
        ELSE IF FirstTag(f.pil) # 0 THEN fix_date_format(f.pil[FirstTag(f.pil)])
        ELSE None

\* get_video_creation_date (lines 153-197)
get_video_creation_date(f) ==
    LET field == FirstField(VideoDateFields, f.meta)
        raw == f.meta[field]
        stripped ==
            IF field = "QuickTime:CreationDate" /\ CountChar(raw, PLUS) > 0
            THEN SplitHead(raw, PLUS) ELSE raw
        fixed == fix_date_format(stripped)
        fmd == IF "File:FileModifyDate" \in DOMAIN f.meta
               THEN f.meta["File:FileModifyDate"] ELSE << >>
        shifted ==
            IF field = "QuickTime:CreateDate" /\ CountChar(fmd, PLUS) > 0
            THEN add_timeshift_value(fmd, fixed) ELSE fixed
    IN  IF ~f.exif_ok \/ field = "" THEN None
        ELSE IF shifted = OverflowError THEN None         \* caught at line 194
        ELSE shifted

\* the date process_file computes (lines 423-438)
ExtractDate(f) ==
    IF f.kind = "image" THEN get_image_creation_date(f)
    ELSE IF f.kind = "video" THEN get_video_creation_date(f)
    ELSE None

\* ------------------------------------------------------------------------
\* The destination directory: a function from file name to content
\* ------------------------------------------------------------------------
\* the existence test made on the bare filename instead of the destination path
Exists_WrongPath(dir, filename) == FALSE

\* os.path.exists(os.path.join(dest_path, filename))
Exists(dir, filename) == filename \in DOMAIN dir

WriteFile(dir, filename, c) ==
    [n \in DOMAIN dir \cup {filename} |-> IF n = filename THEN c ELSE dir[n]]

\* org_img == new_img of compare_possible_duplicate_images (lines 279-283):
\* both files decode and the pictures are equal; a decoding error is suppressed
ImagesEqual(destContent, srcContent) ==
    Decode(destContent) # 0 /\ Decode(destContent) = Decode(srcContent)

\* check_if_file_exists (lines 286-332) as the function it is on a directory
\* that does not change during the call: the path is free, or the existing file
\* is a duplicate image, or the renamed filename is checked by a nested call;
\* depth counts the nested calls
RECURSIVE check_if_file_exists(_, _, _, _)
check_if_file_exists(dir, f, filename, depth) ==
    IF ~Exists(dir, filename) THEN [outcome |-> "free", name |-> filename]
    ELSE IF f.kind = "image" /\ ImagesEqual(dir[filename], f.content)
    THEN [outcome |-> "duplicate", name |-> << >>]
    ELSE IF depth >= RecursionLimit THEN [outcome |-> "crashed", name |-> << >>]
    ELSE check_if_file_exists(dir, f, MutateName(filename), depth + 1)

\* the configured prefix (line 545)
prefix == << 112 >>

\* ------------------------------------------------------------------------
\* State
\* ------------------------------------------------------------------------
VARIABLES
    dry_run,            \* the --dry-run flag
    include_original,   \* the --original-name flag
    dest0,              \* destination directory when the run started
    dest,               \* destination directory now
    count,              \* main()'s counter
    pc,                 \* "loop", "check", "save", "done", "crashed"
    processed,          \* ids of the source files handed to process_file so far
    chain,              \* filename of every nested check_if_file_exists call
    results,            \* what save_renamed_file returned for each file
    written             \* names copy2 completed under, in order

vars == << dry_run, include_original, dest0, dest, count, pc, processed, chain,
           results, written >>

cur == SourceFiles[Last(processed)]

Init ==
    /\ dry_run \in BOOLEAN
    /\ include_original \in BOOLEAN
    /\ dest0 \in InitialDests
    /\ dest = dest0
    /\ count = 1
    /\ pc = "loop"
    /\ processed = << >>
    /\ chain = << >>
    /\ results = << >>
    /\ written = << >>

\* the next file of the walk: any later file of the tree
NextFile(f) ==
    /\ pc = "loop"
    /\ Len(processed) < MaxFiles
    /\ f \in 1..NumFiles
    /\ processed # << >> => f > Last(processed)

\* what the run reports for a file: the outcome, the final name and, as a
\* record of the resolution, every filename check_if_file_exists was called with
Result(outcome, filename) ==
    [file |-> Last(processed), outcome |-> outcome, name |-> filename, tried |-> chain]

\* process_file when filetype.guess returns None (lines 429-432)
UnknownType(f) ==
    /\ NextFile(f)
    /\ SourceFiles[f].kind = "none"
    /\ processed' = Append(processed, f)
    /\ results' = Append(results, [file |-> f, outcome |-> "unknown", name |-> << >>, tried |-> << >>])
    /\ UNCHANGED << dry_run, include_original, dest0, dest, count, pc, chain, written >>

\* process_file up to the call of save_renamed_file (lines 420-447, 351)
BeginFile(f) ==
    /\ NextFile(f)
    /\ SourceFiles[f].kind # "none"
    /\ processed' = Append(processed, f)
    /\ chain' = << construct_filename(prefix, ExtractDate(SourceFiles[f]), count,
                                      SourceFiles[f].ext, include_original,
                                      SourceFiles[f].name) >>
    /\ pc' = "check"
    /\ UNCHANGED << dry_run, include_original, dest0, dest, count, results, written >>

\* the comparison made for every kind of file, on the bytes
IsDuplicate_AnyKind(filename) == dest[filename] = cur.content

\* the existing file is an image equal to the source image (lines 305-310)
IsDuplicate(filename) ==
    /\ cur.kind = "image"
    /\ ImagesEqual(dest[filename], cur.content)

\* check_if_file_exists: the path is free, every nested call returns it (303, 332)
Accept ==
    /\ pc = "check"
    /\ ~Exists(dest, Last(chain))
    /\ pc' = "save"
    /\ UNCHANGED << dry_run, include_original, dest0, dest, count, processed, chain,
                    results, written >>

\* check_if_file_exists returns (False, ""), save_renamed_file reports the
\* duplicate (lines 309-310, 353-354) and process_file returns count + 1
SkipDuplicate ==
    /\ pc = "check"
    /\ Exists(dest, Last(chain))
    /\ IsDuplicate(Last(chain))
    /\ results' = Append(results, Result("duplicate", << >>))
    /\ count' = count + 1
    /\ pc' = "loop"
    /\ chain' = << >>
    /\ UNCHANGED << dry_run, include_original, dest0, dest, processed, written >>

\* check_if_file_exists renames and calls itself (lines 312-330)
Rename ==
    /\ pc = "check"
    /\ Exists(dest, Last(chain))
    /\ ~IsDuplicate(Last(chain))
    /\ Len(chain) < RecursionLimit
    /\ chain' = Append(chain, MutateName(Last(chain)))
    /\ UNCHANGED << dry_run, include_original, dest0, dest, count, pc, processed,
                    results, written >>

\* the nested call exceeds the interpreter's recursion limit: RecursionError
\* leaves main() and the handler at line 612 exits
RecursionOverflow ==
    /\ pc = "check"
    /\ Exists(dest, Last(chain))
    /\ ~IsDuplicate(Last(chain))
    /\ Len(chain) >= RecursionLimit
    /\ pc' = "crashed"
    /\ UNCHANGED << dry_run, include_original, dest0, dest, count, processed, chain,
                    results, written >>

\* the dry-run return missing: the file is copied all the same
DryRun_StillCopies ==
    /\ pc = "save"
    /\ dry_run
    /\ dest' = WriteFile(dest, Last(chain), cur.content)
    /\ written' = Append(written, Last(chain))
    /\ results' = Append(results, Result("dry_run", Last(chain)))
    /\ count' = count + 1
    /\ pc' = "loop"
    /\ chain' = << >>
    /\ UNCHANGED << dry_run, include_original, dest0, processed >>

\* save_renamed_file in a dry run (lines 356-357)
DryRun ==
    /\ pc = "save"
    /\ dry_run
    /\ results' = Append(results, Result("dry_run", Last(chain)))
    /\ count' = count + 1
    /\ pc' = "loop"
    /\ chain' = << >>
    /\ UNCHANGED << dry_run, include_original, dest0, dest, processed, written >>

\* copy2 succeeds (lines 360-361)
CopyOk ==
    /\ pc = "save"
    /\ ~dry_run
    /\ dest' = WriteFile(dest, Last(chain), cur.content)
    /\ written' = Append(written, Last(chain))
    /\ results' = Append(results, Result("copied", Last(chain)))
    /\ count' = count + 1
    /\ pc' = "loop"
    /\ chain' = << >>
    /\ UNCHANGED << dry_run, include_original, dest0, processed >>

\* What a failing copy2 leaves at the destination path.  copy2 is copyfile
\* followed by copystat: it can fail before the destination is created
\* ("open"), while the content is written ("write") or when the metadata is
\* copied after the content ("stat").
AfterFailedCopy(dir, filename, c, stage) ==
    IF stage = "open" THEN dir
    ELSE IF stage = "write" THEN WriteFile(dir, filename, Partial(c))
    ELSE WriteFile(dir, filename, c)

\* copy2 raises (lines 362-364)
CopyFail(stage) ==
    /\ pc = "save"
    /\ ~dry_run
    /\ dest' = AfterFailedCopy(dest, Last(chain), cur.content, stage)
    /\ results' = Append(results, Result("error", Last(chain)))
    /\ count' = count + 1
    /\ pc' = "loop"
    /\ chain' = << >>
    /\ UNCHANGED << dry_run, include_original, dest0, processed, written >>

\* the walk is over (line 603)
Finish ==
    /\ pc = "loop"
    /\ pc' = "done"
    /\ UNCHANGED << dry_run, include_original, dest0, dest, count, processed, chain,
                    results, written >>

Next ==
    \/ \E f \in 1..NumFiles : UnknownType(f)
    \/ \E f \in 1..NumFiles : BeginFile(f)
    \/ Accept
    \/ SkipDuplicate
    \/ Rename
    \/ RecursionOverflow
    \/ DryRun
    \/ CopyOk
    \/ \E stage \in {"open", "write", "stat"} : CopyFail(stage)
    \/ Finish

Spec == Init /\ [][Next]_vars

\* ========================================================================
\* Properties
\* ========================================================================
Distinct(seq) == \A i, j \in 1..Len(seq) : i # j => seq[i] # seq[j]

FileOf(r) == SourceFiles[r.file]

Idle == pc \in {"loop", "done"}

\* C1: every path check_if_file_exists hands to the copy does not exist in the
\* destination directory, no step changes or removes a file the directory
\* already holds, and the names written in one run are pairwise distinct and
\* none of them was in the directory when the run started.
C1_NoOverwrite ==
    /\ [](pc = "save" => ~Exists(dest, Last(chain)))
    /\ [](Distinct(written) /\ \A i \in 1..Len(written) : written[i] \notin DOMAIN dest0)
    /\ [][\A n \in DOMAIN dest : n \in DOMAIN dest' /\ dest'[n] = dest[n]]_vars

\* C1 witness: a file was copied under a name other than its first candidate,
\* into a directory that held files before the run.
C1_Witness ==
    \E i \in 1..Len(results) :
        /\ results[i].outcome = "copied"
        /\ Len(results[i].tried) > 1
        /\ results[i].name \in DOMAIN dest
        /\ dest0 # EmptyDir

\* C2: of two source images with identical content processed in one run that
\* copies, the second is not copied once the first was.
C2_SecondDuplicateNotCopied ==
    \A i, j \in 1..Len(results) :
        ( /\ i < j
          /\ FileOf(results[i]).kind = "image" /\ FileOf(results[j]).kind = "image"
          /\ FileOf(results[i]).content = FileOf(results[j]).content
          /\ results[i].outcome = "copied" )
        => results[j].outcome # "copied"

\* C3: a file whose kind is unknown or outside the image and video families is
\* never copied.
C3_OnlyImagesAndVideosCopied ==
    \A i \in 1..Len(results) :
        FileOf(results[i]).kind \notin {"image", "video"} => results[i].outcome # "copied"

\* C4: between two files the counter is 1 plus the number of files handed to
\* process_file.
C4_CounterCountsEveryFile ==
    Idle => count = 1 + Len(processed)

\* C5: in a dry run the destination directory stays what it was, and every
\* image or video file handed to process_file got a would-be name that is free
\* in the directory, or a duplicate skip.
C5_DryRunWritesNothing ==
    dry_run =>
        /\ dest = dest0
        /\ written = << >>
        /\ Idle => Len(results) = Len(processed)
        /\ \A i \in 1..Len(results) :
              FileOf(results[i]).kind \in {"image", "video"} =>
                  \/ results[i].outcome = "duplicate"
                  \/ /\ results[i].outcome = "dry_run"
                     /\ results[i].name = Last(results[i].tried)
                     /\ ~Exists(dest, results[i].name)

\* C5 witness: a dry run reported a renamed would-be name and a duplicate skip
\* over a directory that holds files.
C5_Witness ==
    /\ dry_run
    /\ dest # EmptyDir
    /\ \E i \in 1..Len(results) :
          results[i].outcome = "dry_run" /\ Len(results[i].tried) > 1
    /\ \E i \in 1..Len(results) : results[i].outcome = "duplicate"

\* C6: the step in which a copy fails reports an error for the file, leaves the
\* destination directory as it was, advances the counter and returns to the
\* loop over the files.
C6_FailedCopyLeavesNothing ==
    [][ ( /\ Len(results') = Len(results) + 1
          /\ Last(results').outcome = "error" )
        => (dest' = dest /\ count' = count + 1 /\ pc' = "loop") ]_vars

\* C7: the filenames one resolution calls check_if_file_exists with are
\* pairwise distinct: renaming never comes back to a name already tried.
C7_NoCandidateTwice ==
    /\ Distinct(chain)
    /\ \A i \in 1..Len(results) : Distinct(results[i].tried)

\* C7 witness: a resolution renamed at least twice, the second time by
\* incrementing the seventh character of the token.
C7_Witness ==
    /\ Len(chain) >= 3
    /\ Len(chain[2]) = Len(chain[3])
    /\ chain[2] # chain[3]

\* the run of the end-to-end example: a.jpg, b.jpg, c.mov in order into an
\* empty directory, every copy succeeding
EndToEndRun ==
    /\ ~dry_run /\ ~include_original /\ dest0 = EmptyDir
    /\ processed = << 1, 3, 5 >>
    /\ Idle
    /\ \A i \in 1..Len(results) : results[i].outcome = "copied"

EndToEndNames ==
    { <<112, 95, 50, 48, 50, 49, 45, 48, 49, 45, 48, 49, 95, 49, 48, 48, 48, 48, 48, 46, 106, 112, 103>>,   \* p_2021-01-01_100000.jpg
      <<112, 95, 50, 46, 106, 112, 103>>,   \* p_2.jpg
      <<112, 95, 50, 48, 50, 49, 45, 48, 49, 45, 48, 50, 95, 48, 56, 48, 48, 48, 48, 46, 109, 111, 118>> }   \* p_2021-01-02_080000.mov

\* C8: after a.jpg, b.jpg and c.mov the destination holds exactly
\* p_2021-01-01_100000.jpg, p_2.jpg and p_2021-01-02_080000.mov.
C8_EndToEndNames ==
    EndToEndRun => DOMAIN dest = EndToEndNames

\* C9: a duplicate skip is reported only for an image, and only when the last
\* destination file examined decodes to the picture of the source file.
C9_SkipOnlyForEqualImages ==
    \A i \in 1..Len(results) :
        results[i].outcome = "duplicate" =>
            /\ FileOf(results[i]).kind = "image"
            /\ Exists(dest, Last(results[i].tried))
            /\ ImagesEqual(dest[Last(results[i].tried)], FileOf(results[i]).content)

\* C9 witness: a video was renamed past an existing file with its own bytes, an
\* image that does not decode was renamed, and an image was skipped after a
\* rename.
C9_Witness ==
    /\ \E i \in 1..Len(results) :
          /\ FileOf(results[i]).kind = "video"
          /\ Len(results[i].tried) > 1
          /\ dest[results[i].tried[1]] = FileOf(results[i]).content
    /\ \E i \in 1..Len(results) :
          /\ FileOf(results[i]).kind = "image"
          /\ Decode(FileOf(results[i]).content) = 0
          /\ Len(results[i].tried) > 1
    /\ \E i \in 1..Len(results) :
          results[i].outcome = "duplicate" /\ Len(results[i].tried) > 1

\* C10: the resolution never ends in anything but a free name or a duplicate
\* skip: the run is never aborted from inside check_if_file_exists.
C10_ResolutionNeverAborts ==
    pc # "crashed"

\* the counter process_file is called with for the file of results[i]: it
\* starts at 1 and every earlier file of a known type added one (lines 432, 452)
CountAt(i) ==
    1 + Cardinality({j \in 1..(i - 1) : results[j].outcome # "unknown"})

\* what a dry run started on the directory dest0 reports for the file of
\* results[i] (lines 351-357): a dry run copies nothing, so every file of it is
\* resolved against dest0
DryRunReport(i) ==
    check_if_file_exists(
        dest0, FileOf(results[i]),
        construct_filename(prefix, ExtractDate(FileOf(results[i])), CountAt(i),
                           FileOf(results[i]).ext, include_original,
                           FileOf(results[i]).name),
        1)

\* the run copied every file it did not skip
EveryCopySucceeded ==
    \A i \in 1..Len(results) : results[i].outcome \in {"copied", "duplicate", "unknown"}

\* C11: in a run that copies, every file gets the name, or the duplicate skip,
\* that a dry run started from the same destination directory reports for it.
C11_DryRunPredictsRealRun ==
    (~dry_run /\ EveryCopySucceeded) =>
        \A i \in 1..Len(results) :
            /\ results[i].outcome = "copied" =>
                  /\ DryRunReport(i).outcome = "free"
                  /\ DryRunReport(i).name = results[i].name
            /\ results[i].outcome = "duplicate" => DryRunReport(i).outcome = "duplicate"

\* the dry run itself reports what DryRunReport computes
DryRunReportIsTheDryRun ==
    dry_run =>
        \A i \in 1..Len(results) :
            /\ results[i].outcome = "dry_run" =>
                  /\ DryRunReport(i).outcome = "free"
                  /\ DryRunReport(i).name = results[i].name
            /\ results[i].outcome = "duplicate" => DryRunReport(i).outcome = "duplicate"

====
